---- MODULE Spec2Model ----
(***************************************************************************)
(* A model of the A2A host orchestrator of google-a2a-sample:              *)
(*   multi_agent/host_agent.py   HostAgent (registry, session, send_task,  *)
(*                               convert_parts / convert_part)             *)
(*   multi_agent/client.py       A2AClient (_send_request, send_task)      *)
(*   multi_agent/card_resolver.py A2ACardResolver.get_agent_card           *)
(*   multi_agent/agent.py        module-level construction of HostAgent    *)
(*                                                                         *)
(* Python values are modelled as records [py |-> <type>, v |-> <string>]:  *)
(* the type tag keeps a str apart from a list, a dict or a DataPart, and   *)
(* a raised exception is the value [py |-> "raise", v |-> <message>].      *)
(***************************************************************************)
EXTENDS Integers, Sequences, FiniteSets, TLC

VARIABLES
  host,                      \* agent.py: "unconstructed" | "ready" | "crashed"
  startup,                   \* the addresses given to HostAgent(...) and what discovery answered
  remote_agent_connections,  \* HostAgent.remote_agent_connections: name -> connection
  cards,                     \* HostAgent.cards: name -> AgentCard
  agents,                    \* HostAgent.agents: the cached listing, one json line per card
  state,                     \* the session state dict (tool_context.state / callback_context.state)
  uuids,                     \* how many uuid.uuid4() values have been drawn
  inflight,                  \* frames of the send_task coroutines suspended at the await
  last,                      \* the frame of the send_task call that finished most recently
  sent,                      \* how many requests were handed to client.send_task
  delegations,               \* how many send_task calls were begun
  observed,                  \* what check_state / list_remote_agents returned most recently
  tool_context,              \* artifact store and actions flags of the tool context
  conv,                      \* one convert_parts invocation: its input and its outcome
  http                       \* one A2AClient round trip: the response and the outcome

registryVars == <<host, startup, remote_agent_connections, cards, agents>>
sessionVars == <<state, uuids, inflight, last, sent, delegations, observed>>
vars == <<host, startup, remote_agent_connections, cards, agents, state, uuids,
          inflight, last, sent, delegations, observed, tool_context, conv, http>>

(***************************************************************************)
(* Bounds of the model.                                                    *)
(***************************************************************************)
MaxParts == 2          \* longest part sequence handed to convert_parts on its own
MaxDelegations == 2    \* send_task calls begun in one behaviour
MaxUuids == 4          \* uuid4 values drawn in one behaviour
MaxAddresses == 2      \* longest address list given to the constructor
MaxRegistrations == 2  \* register_agent_card calls in one behaviour

(***************************************************************************)
(* Python values.                                                          *)
(***************************************************************************)
PyStr(s) == [py |-> "str", v |-> s]
PyDict(r) == [py |-> "dict", v |-> r]
PyList1(s) == [py |-> "list", v |-> s]        \* a list holding the one string s
PyNone == [py |-> "None", v |-> ""]
Raise(e) == [py |-> "raise", v |-> e]

\* DataPart(data={"artifact-file-id": file_id})
ArtifactRef(file_id) ==
  [py |-> "DataPart", v |-> "{'artifact-file-id': '" \o file_id \o "'}"]

\* str(x) as "\n".join(map(str, results_list)) applies it
Str(x) ==
  CASE x.py = "str"      -> x.v
    [] x.py = "dict"     -> x.v
    [] x.py = "DataPart" -> "type='data' data=" \o x.v \o " metadata=None"
    [] OTHER             -> x.py

\* Python dict operations on a function whose DOMAIN is the set of keys present
EmptyDict == [k \in {} |-> ""]
Put(d, k, x) == [y \in (DOMAIN d) \cup {k} |-> IF y = k THEN x ELSE d[y]]
Update(d, e) == [y \in (DOMAIN d) \cup (DOMAIN e) |-> IF y \in DOMAIN e THEN e[y] ELSE d[y]]

(***************************************************************************)
(* Parts (common_types.Part as host_agent.convert_part reads it).          *)
(***************************************************************************)
NoFile == [name |-> "", mimeType |-> "", bytes |-> ""]
TextPart(t) == [type |-> "text", text |-> t, data |-> "", file |-> NoFile]
DataPart(d) == [type |-> "data", text |-> "", data |-> d, file |-> NoFile]
FilePart(n, m, b) ==
  [type |-> "file", text |-> "", data |-> "",
   file |-> [name |-> n, mimeType |-> m, bytes |-> b]]
OtherPart(tag) == [type |-> tag, text |-> "", data |-> "", file |-> NoFile]

\* base64.b64decode on the byte strings of the model: "abc" has incorrect padding
B64Table == [b \in {"aGk=", "iVBORw=="} |-> IF b = "aGk=" THEN "hi" ELSE "PNG"]
b64decode(b) ==
  IF b \in DOMAIN B64Table THEN [ok |-> TRUE, data |-> B64Table[b]]
  ELSE [ok |-> FALSE, data |-> "binascii.Error: Incorrect padding"]

PartKinds ==
  { TextPart("hi"), TextPart(""), DataPart("{'k': 1}"),
    FilePart("f.png", "image/png", "iVBORw=="), FilePart("g.txt", "text/plain", "abc"),
    OtherPart("bogus") }

RECURSIVE SeqsUpTo(_, _)
SeqsUpTo(S, n) ==
  IF n = 0 THEN { <<>> }
  ELSE LET shorter == SeqsUpTo(S, n - 1)
       IN  shorter \cup { Append(s, x) : s \in { t \in shorter : Len(t) = n - 1 }, x \in S }

(***************************************************************************)
(* The tool context: save_artifact and the actions flags.  ctx = FALSE is  *)
(* a call that passes tool_context = None.                                 *)
(***************************************************************************)
\* save_artifact keeping only the artifact saved last
save_artifact_replacing(tc, file_id, mime, data) ==
  [tc EXCEPT !.saved = <<[id |-> file_id, mime_type |-> mime, data |-> data]>>]

save_artifact(tc, file_id, mime, data) ==
  [tc EXCEPT !.saved = Append(@, [id |-> file_id, mime_type |-> mime, data |-> data])]

\* host_agent.py convert_part: the value returned (or raised) and the tool context after it
convert_part_nocheck(part, ctx, tc) ==
  IF part.type = "text" THEN [val |-> PyStr(part.text), tc |-> tc]
  ELSE IF part.type = "data" THEN [val |-> PyDict(part.data), tc |-> tc]
  ELSE IF part.type = "file" THEN
    LET file_id == part.file.name
        file_bytes == b64decode(part.file.bytes)
    IN  IF ~file_bytes.ok THEN [val |-> Raise(file_bytes.data), tc |-> tc]
        ELSE [val |-> ArtifactRef(file_id),
              tc |-> [save_artifact(tc, file_id, part.file.mimeType, file_bytes.data)
                        EXCEPT !.skip_summarization = TRUE, !.escalate = TRUE]]
  ELSE [val |-> PyStr("Unknown type: " \o part.type), tc |-> tc]

convert_part_raises(part, ctx, tc) ==
  IF part.type = "text" THEN [val |-> PyStr(part.text), tc |-> tc]
  ELSE IF part.type = "data" THEN [val |-> PyDict(part.data), tc |-> tc]
  ELSE IF part.type = "file" THEN
    LET file_id == part.file.name
        file_bytes == b64decode(part.file.bytes)
    IN  IF ~file_bytes.ok THEN [val |-> Raise(file_bytes.data), tc |-> tc]
        ELSE [val |-> ArtifactRef(file_id),
              tc |-> IF ctx
                     THEN [save_artifact(tc, file_id, part.file.mimeType, file_bytes.data)
                             EXCEPT !.skip_summarization = TRUE, !.escalate = TRUE]
                     ELSE tc]
  ELSE [val |-> Raise("ValueError: Unknown type: " \o part.type), tc |-> tc]

convert_part(part, ctx, tc) ==
  IF part.type = "text" THEN [val |-> PyStr(part.text), tc |-> tc]
  ELSE IF part.type = "data" THEN [val |-> PyDict(part.data), tc |-> tc]
  ELSE IF part.type = "file" THEN
    LET file_id == part.file.name
        file_bytes == b64decode(part.file.bytes)
    IN  IF ~file_bytes.ok THEN [val |-> Raise(file_bytes.data), tc |-> tc]
        ELSE [val |-> ArtifactRef(file_id),
              tc |-> IF ctx
                     THEN [save_artifact(tc, file_id, part.file.mimeType, file_bytes.data)
                             EXCEPT !.skip_summarization = TRUE, !.escalate = TRUE]
                     ELSE tc]
  ELSE [val |-> PyStr("Unknown type: " \o part.type), tc |-> tc]

\* host_agent.py convert_parts: rval grows part by part; an exception of convert_part
\* leaves the loop with the effects of the parts before it already made
RECURSIVE convert_from(_, _, _, _, _)
convert_from(parts, i, ctx, tc, rval) ==
  IF i > Len(parts) THEN [raised |-> FALSE, exc |-> "", rval |-> rval, tc |-> tc]
  ELSE LET r == convert_part(parts[i], ctx, tc)
       IN  IF r.val.py = "raise"
           THEN [raised |-> TRUE, exc |-> r.val.v, rval |-> rval, tc |-> r.tc]
           ELSE convert_from(parts, i + 1, ctx, r.tc, Append(rval, r.val))

convert_parts(parts, ctx, tc) == convert_from(parts, 1, ctx, tc, <<>>)

NoOutcome == [raised |-> FALSE, exc |-> "", rval |-> <<>>]
FreshToolContext == [saved |-> <<>>, skip_summarization |-> FALSE, escalate |-> FALSE]
IdleConv == [pc |-> "idle", parts |-> <<>>, ctx |-> FALSE, before |-> FreshToolContext,
             out |-> NoOutcome]

(***************************************************************************)
(* Task, TaskStatus, Message as send_task reads them.  none = TRUE is the  *)
(* Python value None in the place of a Task.                               *)
(***************************************************************************)
TaskStates == {"submitted", "working", "completed", "failed", "unknown"}

NoMessage == [present |-> FALSE, parts |-> <<>>]
Message(parts) == [present |-> TRUE, parts |-> parts]
NoStatus == [present |-> FALSE, state |-> "", message |-> NoMessage]
TaskStatus(s, m) == [present |-> TRUE, state |-> s, message |-> m]
NoTask == [none |-> TRUE, status |-> NoStatus, artifacts |-> <<>>]
Task(st, arts) == [none |-> FALSE, status |-> st, artifacts |-> arts]
Artifact(parts) == [parts |-> parts]

(***************************************************************************)
(* The HTTP exchange of A2AClient.  A body is what the server sent: empty, *)
(* not JSON at all, or a JSON document; a document is a list or a dict of  *)
(* the given keys whose "result" is the Task it carries.                   *)
(***************************************************************************)
NoCard == [name |-> "", description |-> "", url |-> ""]
AgentCard(n, d, u) == [name |-> n, description |-> d, url |-> u]
NoDoc == [kind |-> "none", keys |-> {}, result |-> NoTask, card |-> NoCard]
DictDoc(keys, result) == [kind |-> "dict", keys |-> keys, result |-> result, card |-> NoCard]
CardDoc(keys, card) == [kind |-> "dict", keys |-> keys, result |-> NoTask, card |-> card]
ListDoc == [kind |-> "list", keys |-> {}, result |-> NoTask, card |-> NoCard]
EmptyBody == [empty |-> TRUE, json |-> FALSE, doc |-> NoDoc]
TextBody == [empty |-> FALSE, json |-> FALSE, doc |-> NoDoc]   \* e.g. an HTML error page
JsonBody(doc) == [empty |-> FALSE, json |-> TRUE, doc |-> doc]

NoResponse(why) == [received |-> FALSE, why |-> why, status_code |-> 0, content |-> EmptyBody]
Response(code, body) == [received |-> TRUE, why |-> "", status_code |-> code, content |-> body]

\* outcomes of the client's operations: a returned value or a raised exception
Returned(doc) == [raised |-> FALSE, exc |-> "", status_code |-> 0, doc |-> doc]
Raised(exc, code) == [raised |-> TRUE, exc |-> exc, status_code |-> code, doc |-> NoDoc]

\* httpx Response.raise_for_status, for the status classes of the model (2xx, 4xx, 5xx)
is_success(code) == code \div 100 = 2

\* client.py _send_request with the 204 and empty-content checks left out
send_request_noempty(method, path, resp) ==
  IF path = "" \/ path \notin {"/tasks", "/agent-card"}
  THEN Raised("ValueError", 0)
  ELSE IF method \notin {"POST", "GET"} THEN Raised("ValueError", 0)
  ELSE IF ~resp.received THEN Raised("A2AClientConnectionError", 0)
  ELSE IF ~is_success(resp.status_code) THEN Raised("A2AClientHTTPError", resp.status_code)
  ELSE IF ~resp.content.json THEN Raised("JSONDecodeError", 0)
  ELSE Returned(resp.content.doc)

\* client.py _send_request with raise_for_status left out
send_request_nostatus(method, path, resp) ==
  IF path = "" \/ path \notin {"/tasks", "/agent-card"}
  THEN Raised("ValueError", 0)
  ELSE IF method \notin {"POST", "GET"} THEN Raised("ValueError", 0)
  ELSE IF ~resp.received THEN Raised("A2AClientConnectionError", 0)
  ELSE IF resp.status_code = 204 THEN Returned(DictDoc({}, NoTask))
  ELSE IF resp.content.empty THEN Returned(DictDoc({}, NoTask))
  ELSE IF ~resp.content.json THEN Raised("JSONDecodeError", 0)
  ELSE Returned(resp.content.doc)

\* client.py A2AClient._send_request: the paths of the model either start with "/" or not
send_request(method, path, resp) ==
  IF path = "" \/ path \notin {"/tasks", "/agent-card"}
  THEN Raised("ValueError", 0)                                 \* lines 50-52
  ELSE IF method \notin {"POST", "GET"} THEN Raised("ValueError", 0)      \* 74-76, 101-105
  ELSE IF ~resp.received THEN Raised("A2AClientConnectionError", 0)       \* 97-100
  ELSE IF ~is_success(resp.status_code)
       THEN Raised("A2AClientHTTPError", resp.status_code)               \* 81, 93-96
  ELSE IF resp.status_code = 204 THEN Returned(DictDoc({}, NoTask))       \* 84-85
  ELSE IF resp.content.empty THEN Returned(DictDoc({}, NoTask))           \* 87-89
  ELSE IF ~resp.content.json THEN Raised("JSONDecodeError", 0)            \* 91, 101-105
  ELSE Returned(resp.content.doc)

\* common_types.SendTaskResponse(**response_json): the response shape of the A2A
\* wire contract; every field is optional, a result that is present must be a Task
WellFormedTask(t) ==
  /\ ~t.none
  /\ t.status.present
  /\ t.status.state \in TaskStates

SendTaskResponseKeys == {"jsonrpc", "id", "result", "error"}

ValidSendTaskResponse(doc) ==
  /\ doc.kind = "dict"
  /\ doc.keys \subseteq SendTaskResponseKeys
  /\ "result" \in doc.keys => WellFormedTask(doc.result)

\* client.py A2AClient.send_task
client_send_task(is_dict, resp) ==
  IF ~is_dict THEN Raised("TypeError", 0)                                \* 128-130
  ELSE LET response_json == send_request("POST", "/tasks", resp)          \* 134
       IN  IF response_json.raised THEN response_json
           ELSE IF ValidSendTaskResponse(response_json.doc)              \* 138-142
                THEN Returned(response_json.doc)
                ELSE Raised("ValueError", 0)                             \* 143-145

\* remote_agent_connection.RemoteAgentConnections.send_task: one round trip of the bound
\* client with the request dumped to a dict; the Task of the response, None when the
\* response carries none; the client's exceptions pass through
connection_send_task(resp) ==
  LET r == client_send_task(TRUE, resp)
  IN  IF r.raised THEN [raised |-> TRUE, exc |-> r.exc, status_code |-> r.status_code,
                        task |-> NoTask]
      ELSE [raised |-> FALSE, exc |-> "", status_code |-> 0,
            task |-> IF "result" \in r.doc.keys THEN r.doc.result ELSE NoTask]

\* str(e) of the exception a failed round trip raised
ExcText(r) ==
  IF r.exc = "A2AClientHTTPError" THEN "HTTP Error " \o ToString(r.status_code)
  ELSE r.exc

(***************************************************************************)
(* Agent discovery and the registry.  A Python dict that is iterated is a  *)
(* sequence of [key, value] entries in insertion order.                    *)
(***************************************************************************)
Keys(d) == { d[i].key : i \in DOMAIN d }
HasKey(d, k) == k \in Keys(d)
\* d[k] = x adding an entry even when the key is present
SetItem_appending(d, k, x) == Append(d, [key |-> k, value |-> x])

\* d[k] = x
SetItem(d, k, x) ==
  IF HasKey(d, k)
  THEN [i \in DOMAIN d |-> IF d[i].key = k THEN [key |-> k, value |-> x] ELSE d[i]]
  ELSE Append(d, [key |-> k, value |-> x])

\* common_types.AgentCard(**card_data): the fields a card must carry
AgentCardRequired == {"name", "url", "version", "capabilities"}
AgentCardKeys == AgentCardRequired \cup {"description", "skills"}
ValidAgentCard(doc) ==
  /\ doc.kind = "dict"
  /\ AgentCardRequired \subseteq doc.keys
  /\ doc.keys \subseteq AgentCardKeys

\* the outcome of get_agent_card: the exception raised, the exception it was raised from
\* (__cause__), the card returned and the number of GET requests made
CardRaised(exc, cause) ==
  [raised |-> TRUE, exc |-> exc, cause |-> cause, card |-> NoCard, gets |-> 1]
CardReturned(card) ==
  [raised |-> FALSE, exc |-> "", cause |-> "", card |-> card, gets |-> 1]
NoResolution == [raised |-> FALSE, exc |-> "", cause |-> "", card |-> NoCard, gets |-> 0]

\* get_agent_card with the HTTP status error wrapped like the other two
get_agent_card_wrapping(resp) ==
  IF ~resp.received THEN CardRaised("ValueError", "RequestError")
  ELSE IF ~is_success(resp.status_code) THEN CardRaised("ValueError", "HTTPStatusError")
  ELSE IF resp.content.empty \/ ~resp.content.json
       THEN CardRaised("ValueError", "JSONDecodeError")
  ELSE IF resp.content.doc.kind /= "dict" THEN CardRaised("TypeError", "")
  ELSE IF ~ValidAgentCard(resp.content.doc) THEN CardRaised("ValidationError", "")
  ELSE CardReturned(resp.content.doc.card)

\* card_resolver.py A2ACardResolver.get_agent_card: one GET, no retry.  The ValueError of
\* line 42 has the same type and message for a request error and for a body that is not
\* JSON; "from e" keeps the original as its cause
get_agent_card(resp) ==
  IF ~resp.received THEN CardRaised("ValueError", "RequestError")                  \* 29, 39-42
  ELSE IF ~is_success(resp.status_code) THEN CardRaised("HTTPStatusError", "")     \* 31, 35-38
  ELSE IF resp.content.empty \/ ~resp.content.json
       THEN CardRaised("ValueError", "JSONDecodeError")                            \* 32, 39-42
  ELSE IF resp.content.doc.kind /= "dict" THEN CardRaised("TypeError", "")         \* 34
  ELSE IF ~ValidAgentCard(resp.content.doc) THEN CardRaised("ValidationError", "") \* 34
  ELSE CardReturned(resp.content.doc.card)

\* remote_agent_connection.RemoteAgentConnections(card): a connection bound to one card
RemoteAgentConnections(card) == [card |-> card]

\* host_agent.py list_remote_agents, on the two maps of a HostAgent
list_agents_of(connections, cs) ==
  IF connections = <<>> THEN <<>>
  ELSE [i \in DOMAIN cs |-> [name |-> cs[i].value.name,
                             description |-> cs[i].value.description]]

\* json.dumps of one listing entry
json_dumps(ra) ==
  "{\"name\": \"" \o ra.name \o "\", \"description\": \"" \o ra.description \o "\"}"

RECURSIVE JoinFrom(_, _, _)
JoinFrom(strs, i, sep) ==
  IF i > Len(strs) THEN ""
  ELSE IF i = Len(strs) THEN strs[i]
  ELSE strs[i] \o sep \o JoinFrom(strs, i + 1, sep)

\* sep.join(strs)
Join(strs, sep) == JoinFrom(strs, 1, sep)

\* lines 56-59 and 65-68: the cached listing
agent_info(connections, cs) ==
  LET listing == list_agents_of(connections, cs)
  IN  Join([i \in DOMAIN listing |-> json_dumps(listing[i])], "\n")

\* register_agent_card with the cached listing left as it was
register_stale_listing(reg, card) ==
  [remote_agent_connections |->
     SetItem(reg.remote_agent_connections, card.name, RemoteAgentConnections(card)),
   cards |-> SetItem(reg.cards, card.name, card),
   agents |-> reg.agents]

\* host_agent.py register_agent_card, on the two maps
register(reg, card) ==
  LET conns == SetItem(reg.remote_agent_connections, card.name, RemoteAgentConnections(card))
      cs == SetItem(reg.cards, card.name, card)
  IN  [remote_agent_connections |-> conns, cards |-> cs, agents |-> agent_info(conns, cs)]

EmptyRegistry == [remote_agent_connections |-> <<>>, cards |-> <<>>, agents |-> ""]

\* the loop of HostAgent.__init__ (lines 50-55): the first card that cannot be resolved
\* raises out of the constructor
RECURSIVE resolve_all(_, _, _, _)
resolve_all(addresses, answers, i, reg) ==
  IF i > Len(addresses) THEN [raised |-> FALSE, exc |-> "", reg |-> reg]
  ELSE LET r == get_agent_card(answers[addresses[i]])
       IN  IF r.raised THEN [raised |-> TRUE, exc |-> r.exc, reg |-> EmptyRegistry]
           ELSE resolve_all(addresses, answers, i + 1,
                            [remote_agent_connections |->
                               SetItem(reg.remote_agent_connections, r.card.name,
                                       RemoteAgentConnections(r.card)),
                             cards |-> SetItem(reg.cards, r.card.name, r.card),
                             agents |-> ""])

\* the constructor with a failed discovery skipped instead of raised
HostAgent_skipping(addresses, answers) ==
  LET ok == SelectSeq(addresses, LAMBDA a : ~get_agent_card(answers[a]).raised)
      r == resolve_all(ok, answers, 1, EmptyRegistry)
  IN  [r EXCEPT !.reg.agents = agent_info(r.reg.remote_agent_connections, r.reg.cards)]

\* host_agent.py HostAgent.__init__
HostAgent(addresses, answers) ==
  LET r == resolve_all(addresses, answers, 1, EmptyRegistry)
  IN  IF r.raised THEN r
      ELSE [r EXCEPT !.reg.agents = agent_info(r.reg.remote_agent_connections, r.reg.cards)]

(***************************************************************************)
(* The session state and the callbacks that read and write it.  state is   *)
(* a dict: DOMAIN state is the set of keys present.                        *)
(***************************************************************************)
\* str(uuid.uuid4()): the n-th value drawn
Uuid(n) == "uuid-" \o ToString(n)

\* check_state with the test of session_active left out
check_state_ignoring_active(st) ==
  IF "session_id" \in DOMAIN st /\ "agent" \in DOMAIN st THEN st["agent"] ELSE "None"

\* host_agent.py check_state
check_state(st) ==
  IF /\ "session_id" \in DOMAIN st
     /\ "session_active" \in DOMAIN st
     /\ st["session_active"]
     /\ "agent" \in DOMAIN st
  THEN st["agent"]
  ELSE "None"

\* before_model_callback drawing a session_id whenever the session is not active
before_model_callback_redraw(st, n) ==
  IF "session_active" \notin DOMAIN st \/ ~st["session_active"]
  THEN [state |-> Put(Put(st, "session_id", Uuid(n + 1)), "session_active", TRUE),
        uuids |-> n + 1]
  ELSE [state |-> st, uuids |-> n]

\* before_model_callback drawing a session_id at every call
before_model_callback_always(st, n) ==
  [state |-> Put(Put(st, "session_id", Uuid(n + 1)), "session_active", TRUE),
   uuids |-> n + 1]

\* host_agent.py before_model_callback; n uuids were drawn before it
before_model_callback(st, n) ==
  IF "session_active" \notin DOMAIN st \/ ~st["session_active"]
  THEN IF "session_id" \notin DOMAIN st
       THEN [state |-> Put(Put(st, "session_id", Uuid(n + 1)), "session_active", TRUE),
             uuids |-> n + 1]
       ELSE [state |-> Put(st, "session_active", TRUE), uuids |-> n]
  ELSE [state |-> st, uuids |-> n]

(***************************************************************************)
(* send_task.  The coroutine runs from its entry to the await of           *)
(* client.send_task without yielding (send_task_begin), and from the       *)
(* outcome of the round trip to its return (send_task_finish).             *)
(***************************************************************************)
NoRequest == [to |-> "", id |-> "", sessionId |-> "", text |-> "",
              message_metadata |-> EmptyDict, conversation_id |-> ""]
NoReply == [raised |-> FALSE, exc |-> "", status_code |-> 0, task |-> NoTask]
NoFrame == [pc |-> "none", agent_name |-> "", message |-> "", taskId |-> "",
            request |-> NoRequest, attempts |-> 0, reply |-> NoReply, result |-> PyNone]

\* the membership test left out
registered_unchecked(connections, agent_name) == TRUE

\* line 141
registered(connections, agent_name) == HasKey(connections, agent_name)

\* the task id kept only while the agent named is the one named before
choose_task_id_per_agent(st, agent_name, n) ==
  IF "task_id" \in DOMAIN st /\ "agent" \in DOMAIN st /\ st["agent"] = agent_name
  THEN [taskId |-> st["task_id"], uuids |-> n]
  ELSE [taskId |-> Uuid(n + 1), uuids |-> n + 1]

\* a task id drawn for every call
choose_task_id_fresh(st, agent_name, n) == [taskId |-> Uuid(n + 1), uuids |-> n + 1]

\* lines 149-152: the task id of this delegation and the uuids drawn so far; st is the
\* state on entry, whose task_id line 144 leaves alone
choose_task_id(st, agent_name, n) ==
  IF "task_id" \in DOMAIN st
  THEN [taskId |-> st["task_id"], uuids |-> n]
  ELSE [taskId |-> Uuid(n + 1), uuids |-> n + 1]

\* the input metadata passed on as it is
choose_message_passthrough(st, sessionId, n) ==
  [metadata |-> IF "input_message_metadata" \in DOMAIN st
                THEN st["input_message_metadata"] ELSE EmptyDict,
   uuids |-> n]

\* lines 156-164: the message id and the message metadata
choose_message(st, sessionId, n) ==
  LET input == IF "input_message_metadata" \in DOMAIN st
               THEN st["input_message_metadata"] ELSE EmptyDict
      given == IF "message_id" \in DOMAIN input THEN input["message_id"] ELSE ""
      messageId == IF given = "" THEN Uuid(n + 1) ELSE given
  IN  [metadata |-> Update(input, [k \in {"conversation_id", "message_id"} |->
                                     IF k = "conversation_id" THEN sessionId ELSE messageId]),
       uuids |-> IF given = "" THEN n + 1 ELSE n]

\* the agent named not recorded before the call
record_agent_skipped(st, agent_name) == st

\* line 144
record_agent(st, agent_name) == Put(st, "agent", agent_name)

\* the task id not recorded before the call
record_task_id_skipped(st, taskId) == st

\* line 154
record_task_id(st, taskId) == Put(st, "task_id", taskId)

\* the agent named recorded before the membership test
agent_not_found_recording(st, n, agent_name, message) ==
  [state |-> Put(st, "agent", agent_name), uuids |-> n,
   frame |-> [NoFrame EXCEPT !.pc = "raised", !.agent_name = agent_name,
                             !.message = message,
                             !.result = Raise("ValueError: Agent " \o agent_name
                                              \o " not found")]]

\* lines 141-142: the call raises with the state as it found it
agent_not_found(st, n, agent_name, message) ==
  [state |-> st, uuids |-> n,
   frame |-> [NoFrame EXCEPT !.pc = "raised", !.agent_name = agent_name,
                             !.message = message,
                             !.result = Raise("ValueError: Agent " \o agent_name
                                              \o " not found")]]

\* lines 141-181, up to the await
send_task_begin(connections, st, n, agent_name, message) ==
  IF ~registered(connections, agent_name)
  THEN agent_not_found(st, n, agent_name, message)
  ELSE LET st1 == record_agent(st, agent_name)                     \* 144
           t == choose_task_id(st, agent_name, n)                  \* 149-152
       IN  IF "session_id" \notin DOMAIN st1                       \* 153
           THEN [state |-> st1, uuids |-> t.uuids,
                 frame |-> [NoFrame EXCEPT !.pc = "raised", !.agent_name = agent_name,
                                           !.message = message, !.taskId = t.taskId,
                                           !.result = Raise("KeyError: 'session_id'")]]
           ELSE LET sessionId == st1["session_id"]
                    st2 == record_task_id(st1, t.taskId)           \* 154
                    m == choose_message(st2, sessionId, t.uuids)   \* 156-164
                IN  [state |-> st2, uuids |-> m.uuids,
                     frame |-> [NoFrame EXCEPT
                                  !.pc = "await", !.agent_name = agent_name,
                                  !.message = message, !.taskId = t.taskId,
                                  !.attempts = 1,
                                  !.request = [to |-> agent_name, id |-> t.taskId,
                                               sessionId |-> sessionId, text |-> message,
                                               message_metadata |-> m.metadata,
                                               conversation_id |-> sessionId]]]

\* lines 193-197: the parts of every artifact, converted in artifact order
RECURSIVE convert_artifacts(_, _, _, _)
convert_artifacts(artifacts, i, tc, results_list) ==
  IF i > Len(artifacts) THEN [raised |-> FALSE, exc |-> "", rval |-> results_list, tc |-> tc]
  ELSE LET c == convert_parts(artifacts[i].parts, TRUE, tc)
       IN  IF c.raised THEN c
           ELSE convert_artifacts(artifacts, i + 1, c.tc, results_list \o c.rval)

NoContent(agent_name) == "Task completed but no text content found for " \o agent_name \o "."

\* lines 188-213: the response of the remote agent turned into the value returned
process_response(agent_name, taskId, task, tc) ==
  IF ~task.none /\ task.status.present /\ task.status.message.present      \* 189
  THEN LET c == convert_parts(task.status.message.parts, TRUE, tc)         \* 191
           a == IF c.raised THEN c
                ELSE IF task.artifacts /= <<>>                             \* 193
                     THEN convert_artifacts(task.artifacts, 1, c.tc, c.rval)
                     ELSE c
       IN  IF a.raised                                                     \* 210-213
           THEN [result |-> PyStr("Error processing response for task " \o taskId
                                  \o ": " \o a.exc),
                 tc |-> a.tc]
           ELSE [result |-> PyStr(IF a.rval /= <<>>                        \* 199
                                  THEN Join([i \in DOMAIN a.rval |-> Str(a.rval[i])], "\n")
                                  ELSE NoContent(agent_name)),
                 tc |-> a.tc]
  ELSE IF ~task.none /\ task.status.present                                \* 202-205
  THEN [result |-> PyStr("Task failed or completed without results from " \o agent_name
                         \o ". Status: " \o task.status.state),
        tc |-> tc]
  ELSE [result |-> PyStr("Failed to get a valid response structure from " \o agent_name
                         \o " after sending task (Task object: None)."),
        tc |-> tc]

\* send_task calling client.send_task a second time when the first call raised
send_task_finish_retrying(frame, r, tc) ==
  IF r.raised
  THEN [result |-> PyList1("Error communicating with " \o frame.agent_name \o ": "
                           \o ExcText(r)),
        tc |-> tc, attempts |-> frame.attempts + 1]
  ELSE LET p == process_response(frame.agent_name, frame.taskId, r.task, tc)
       IN  [result |-> p.result, tc |-> p.tc, attempts |-> frame.attempts]

\* lines 177-213: from the outcome r of client.send_task to the return; attempts is the
\* number of times client.send_task was called when send_task returns
send_task_finish(frame, r, tc) ==
  IF r.raised                                                              \* 183-185
  THEN [result |-> PyList1("Error communicating with " \o frame.agent_name \o ": "
                           \o ExcText(r)),
        tc |-> tc, attempts |-> frame.attempts]
  ELSE LET p == process_response(frame.agent_name, frame.taskId, r.task, tc)
       IN  [result |-> p.result, tc |-> p.tc, attempts |-> frame.attempts]

(***************************************************************************)
(* Inputs of the model.                                                    *)
(***************************************************************************)
SearchCard == AgentCard("GoogleSearchGrounded",
                        "Capable of returning results by performing google search.",
                        "http://127.0.0.1:5000")
EmojiCard == AgentCard("HappyEmoji", "Returns response by adding Happy emojis.",
                       "http://127.0.0.1:5001")
Addresses == {"http://127.0.0.1:5000", "http://127.0.0.1:5001"}
CardAt(a) == IF a = "http://127.0.0.1:5000" THEN SearchCard ELSE EmojiCard

AgentNames == {"GoogleSearchGrounded", "HappyEmoji", "unknown-agent"}
Messages == {"hi"}

GoodCardBody(a) == JsonBody(CardDoc(AgentCardKeys, CardAt(a)))

\* what the discovery endpoint of address a may answer
DiscoveryAnswers(a) ==
  { Response(200, GoodCardBody(a)), Response(500, TextBody), NoResponse("connect"),
    Response(200, TextBody), Response(200, JsonBody(CardDoc({"name"}, CardAt(a)))) }

\* the cards register_agent_card is called with
RegisteredCards ==
  { SearchCard, EmojiCard, AgentCard("HappyEmoji", "A newer description.", "http://127.0.0.1:5002") }

\* the session state a conversation may hold when the host first sees it
InitialMetadata ==
  { [k \in {"message_id"} |-> "m-in"],
    [k \in {"message_id", "source"} |-> IF k = "source" THEN "ui" ELSE ""],
    [k \in {"conversation_id"} |-> "c-in"] }

RECURSIVE PutAll(_, _)
PutAll(d, entries) ==
  IF entries = <<>> THEN d
  ELSE PutAll(Put(d, entries[1][1], entries[1][2]), Tail(entries))

InitialStates ==
  { PutAll(EmptyDict, sid \o act \o md) :
      sid \in { <<>>, << <<"session_id", "sid-0">> >> },
      act \in { <<>>, << <<"session_active", TRUE>> >>, << <<"session_active", FALSE>> >> },
      md \in { <<>> } \cup { << <<"input_message_metadata", m>> >> : m \in InitialMetadata } }

\* the Tasks a remote agent answers with
ReplyStates == {"completed", "failed", "working"}
ReplyParts ==
  { <<>>, <<TextPart("hi")>>, <<TextPart("")>>,
    <<FilePart("f.png", "image/png", "iVBORw==")>>,
    <<FilePart("g.txt", "text/plain", "abc")>> }
ReplyMessages == { NoMessage } \cup { Message(ps) : ps \in ReplyParts }
ReplyArtifacts == <<Artifact(<<TextPart("art")>>), Artifact(<<DataPart("{'k': 1}")>>)>>
ReplyTasks ==
  { Task(TaskStatus(s, m), <<>>) : s \in ReplyStates, m \in ReplyMessages }
  \cup { Task(TaskStatus("completed", m), ReplyArtifacts) :
           m \in { NoMessage, Message(<<TextPart("hi")>>) } }

TaskBody(t) == JsonBody(DictDoc({"jsonrpc", "id", "result"}, t))

\* what the task endpoint may answer to one POST /tasks
TaskAnswers ==
  { NoResponse("connect"), Response(500, TextBody), Response(204, EmptyBody),
    Response(200, TextBody), Response(200, JsonBody(DictDoc({"messages", "id", "status"}, NoTask))),
    Response(200, TaskBody(Task(NoStatus, <<>>))) }
  \cup { Response(200, TaskBody(t)) : t \in ReplyTasks }

(***************************************************************************)
(* The delegation specification: one session, the registry as constructed  *)
(* from two agents whose discovery succeeded.                              *)
(***************************************************************************)
NoObservation == [op |-> "", active_agent |-> "", listing |-> <<>>]
NoStartup == [addresses |-> <<>>, answers |-> [a \in Addresses |-> NoResponse("")],
              exc |-> "", registrations |-> 0]
IdleHttp == [pc |-> "idle", op |-> "", is_dict |-> TRUE, resp |-> NoResponse(""),
             out |-> Returned(NoDoc), card |-> NoResolution]
NoCalls == [c \in {} |-> NoFrame]

AllGood == [a \in Addresses |-> Response(200, GoodCardBody(a))]
BothAgents == HostAgent(<<"http://127.0.0.1:5000", "http://127.0.0.1:5001">>, AllGood).reg

Init ==
  /\ host = "ready"
  /\ startup = [NoStartup EXCEPT !.addresses = <<"http://127.0.0.1:5000",
                                                 "http://127.0.0.1:5001">>,
                                 !.answers = AllGood]
  /\ remote_agent_connections = BothAgents.remote_agent_connections
  /\ cards = BothAgents.cards
  /\ agents = BothAgents.agents
  /\ state \in InitialStates
  /\ uuids = 0
  /\ inflight = NoCalls
  /\ last = NoFrame
  /\ sent = 0
  /\ delegations = 0
  /\ observed = NoObservation
  /\ tool_context = FreshToolContext
  /\ conv = IdleConv
  /\ http = IdleHttp

\* the model's planning loop reaches the model: before_model_callback runs
BeforeModelCallback ==
  LET r == before_model_callback(state, uuids)
  IN  /\ r.uuids <= MaxUuids
      /\ state' = r.state
      /\ uuids' = r.uuids
      /\ UNCHANGED <<registryVars, inflight, last, sent, delegations, observed,
                     tool_context, conv, http>>

\* root_instruction reads the current agent
CheckState ==
  /\ observed' = [NoObservation EXCEPT !.op = "check_state",
                                       !.active_agent = check_state(state)]
  /\ UNCHANGED <<registryVars, state, uuids, inflight, last, sent, delegations,
                 tool_context, conv, http>>

\* the tool send_task is called: it raises at once or suspends at the await
SendTaskCall(agent_name, message) ==
  LET r == send_task_begin(remote_agent_connections, state, uuids, agent_name, message)
  IN  /\ host = "ready"
      /\ DOMAIN inflight = {}
      /\ delegations < MaxDelegations
      /\ r.uuids <= MaxUuids
      /\ delegations' = delegations + 1
      /\ state' = r.state
      /\ uuids' = r.uuids
      /\ IF r.frame.pc = "await"
         THEN /\ inflight' = [c \in {delegations + 1} |-> r.frame]
              /\ sent' = sent + r.frame.attempts
              /\ last' = last
         ELSE /\ inflight' = inflight
              /\ sent' = sent + r.frame.attempts
              /\ last' = r.frame
      /\ UNCHANGED <<registryVars, observed, tool_context, conv, http>>

\* the round trip of call c ends with answer resp (or with none) and send_task returns
SendTaskReturn(c, resp) ==
  /\ c \in DOMAIN inflight
  /\ LET r == connection_send_task(resp)
         f == send_task_finish(inflight[c], r, tool_context)
     IN  /\ last' = [inflight[c] EXCEPT !.pc = "returned", !.reply = r, !.result = f.result,
                                        !.attempts = f.attempts]
         /\ sent' = sent + (f.attempts - inflight[c].attempts)
         /\ tool_context' = f.tc
  /\ inflight' = [d \in (DOMAIN inflight) \ {c} |-> inflight[d]]
  /\ UNCHANGED <<registryVars, state, uuids, delegations, observed, conv, http>>

Next ==
  \/ BeforeModelCallback
  \/ CheckState
  \/ \E agent_name \in AgentNames, message \in Messages : SendTaskCall(agent_name, message)
  \/ \E c \in DOMAIN inflight, resp \in TaskAnswers : SendTaskReturn(c, resp)

Spec == Init /\ [][Next]_vars

(***************************************************************************)
(* The startup specification: agent.py constructs the HostAgent from a     *)
(* list of addresses; cards are registered and listed afterwards.          *)
(***************************************************************************)
AddressLists == SeqsUpTo(Addresses, MaxAddresses)

InitStartup ==
  /\ host = "unconstructed"
  /\ startup = NoStartup
  /\ remote_agent_connections = <<>>
  /\ cards = <<>>
  /\ agents = ""
  /\ state = EmptyDict
  /\ uuids = 0
  /\ inflight = NoCalls
  /\ last = NoFrame
  /\ sent = 0
  /\ delegations = 0
  /\ observed = NoObservation
  /\ tool_context = FreshToolContext
  /\ conv = IdleConv
  /\ http = IdleHttp

\* agent.py lines 19-28: HostAgent(remote_agent_addresses=...), any exception re-raised
Construct(addresses, answers) ==
  /\ host = "unconstructed"
  /\ LET r == HostAgent(addresses, answers)
     IN  /\ host' = IF r.raised THEN "crashed" ELSE "ready"
         /\ startup' = [startup EXCEPT !.addresses = addresses, !.answers = answers,
                                       !.exc = r.exc]
         /\ remote_agent_connections' = r.reg.remote_agent_connections
         /\ cards' = r.reg.cards
         /\ agents' = r.reg.agents
  /\ UNCHANGED <<sessionVars, tool_context, conv, http>>

\* host_agent.py register_agent_card
RegisterAgentCard(card) ==
  /\ host = "ready"
  /\ startup.registrations < MaxRegistrations
  /\ LET r == register([remote_agent_connections |-> remote_agent_connections,
                        cards |-> cards, agents |-> agents], card)
     IN  /\ remote_agent_connections' = r.remote_agent_connections
         /\ cards' = r.cards
         /\ agents' = r.agents
  /\ startup' = [startup EXCEPT !.registrations = @ + 1]
  /\ UNCHANGED <<host, sessionVars, tool_context, conv, http>>

\* host_agent.py list_remote_agents, as the tool the planning loop calls
ListRemoteAgents ==
  /\ host = "ready"
  /\ observed' = [NoObservation EXCEPT
                    !.op = "list_remote_agents",
                    !.listing = list_agents_of(remote_agent_connections, cards)]
  /\ UNCHANGED <<registryVars, state, uuids, inflight, last, sent, delegations,
                 tool_context, conv, http>>

NextStartup ==
  \/ \E addresses \in AddressLists :
       \E answers \in [Addresses -> UNION { DiscoveryAnswers(a) : a \in Addresses }] :
         /\ \A a \in Addresses : answers[a] \in DiscoveryAnswers(a)
         /\ Construct(addresses, answers)
  \/ \E card \in RegisteredCards : RegisterAgentCard(card)
  \/ ListRemoteAgents

SpecStartup == InitStartup /\ [][NextStartup]_vars

(***************************************************************************)
(* The conversion specification: convert_parts applied to every part       *)
(* sequence of the bounds, with a tool context or with None.               *)
(***************************************************************************)
PartSeqs == SeqsUpTo(PartKinds, MaxParts)

InitConvert ==
  /\ host = "ready"
  /\ startup = NoStartup
  /\ remote_agent_connections = <<>>
  /\ cards = <<>>
  /\ agents = ""
  /\ state = EmptyDict
  /\ uuids = 0
  /\ inflight = NoCalls
  /\ last = NoFrame
  /\ sent = 0
  /\ delegations = 0
  /\ observed = NoObservation
  /\ tool_context \in { [FreshToolContext EXCEPT !.skip_summarization = s, !.escalate = e] :
                          s \in BOOLEAN, e \in BOOLEAN }
  /\ http = IdleHttp
  /\ conv \in { [IdleConv EXCEPT !.pc = "input", !.parts = ps, !.ctx = c,
                                 !.before = tool_context] :
                  ps \in PartSeqs, c \in BOOLEAN }

\* host_agent.py convert_parts(parts, tool_context)
ConvertParts ==
  /\ conv.pc = "input"
  /\ LET r == convert_parts(conv.parts, conv.ctx, tool_context)
     IN  /\ conv' = [conv EXCEPT !.pc = "done",
                                 !.out = [raised |-> r.raised, exc |-> r.exc, rval |-> r.rval]]
         /\ tool_context' = r.tc
  /\ UNCHANGED <<registryVars, sessionVars, http>>

NextConvert == ConvertParts

SpecConvert == InitConvert /\ [][NextConvert]_vars

(***************************************************************************)
(* The transport specification: one round trip of A2AClient against every  *)
(* answer of the bounds.                                                   *)
(***************************************************************************)
StatusCodes == {200, 201, 204, 400, 404, 500, 503}
Bodies ==
  { EmptyBody, TextBody, JsonBody(ListDoc), JsonBody(DictDoc({}, NoTask)),
    JsonBody(DictDoc({"jsonrpc", "id"}, NoTask)),
    JsonBody(DictDoc({"messages", "id", "status"}, NoTask)),
    TaskBody(Task(NoStatus, <<>>)),
    TaskBody(Task(TaskStatus("bogus", NoMessage), <<>>)),
    TaskBody(Task(TaskStatus("completed", Message(<<TextPart("hi")>>)), <<>>)),
    TaskBody(Task(TaskStatus("failed", NoMessage), <<>>)),
    GoodCardBody("http://127.0.0.1:5000") }
HttpAnswers ==
  { NoResponse("connect"), NoResponse("timeout") }
  \cup { Response(code, body) : code \in StatusCodes, body \in Bodies }

InitClient ==
  /\ host = "ready"
  /\ startup = NoStartup
  /\ remote_agent_connections = <<>>
  /\ cards = <<>>
  /\ agents = ""
  /\ state = EmptyDict
  /\ uuids = 0
  /\ inflight = NoCalls
  /\ last = NoFrame
  /\ sent = 0
  /\ delegations = 0
  /\ observed = NoObservation
  /\ tool_context = FreshToolContext
  /\ conv = IdleConv
  /\ http \in { [IdleHttp EXCEPT !.pc = "input", !.is_dict = d, !.resp = resp] :
                  d \in BOOLEAN, resp \in HttpAnswers }

\* client.py A2AClient.send_task(request_data)
ClientSendTask ==
  /\ http.pc = "input"
  /\ http' = [http EXCEPT !.pc = "done", !.op = "send_task",
                          !.out = client_send_task(http.is_dict, http.resp)]
  /\ UNCHANGED <<registryVars, sessionVars, tool_context, conv>>

\* card_resolver.py A2ACardResolver(base_url).get_agent_card()
ResolveCard ==
  /\ http.pc = "input"
  /\ http.is_dict
  /\ http' = [http EXCEPT !.pc = "done", !.op = "get_agent_card",
                          !.card = get_agent_card(http.resp)]
  /\ UNCHANGED <<registryVars, sessionVars, tool_context, conv>>

NextClient ==
  \/ ClientSendTask
  \/ ResolveCard

SpecClient == InitClient /\ [][NextClient]_vars

(***************************************************************************)
(* The coroutine specification: several send_task calls of one session on  *)
(* one event loop.  A coroutine runs without interruption between awaits:  *)
(* a call runs from its entry to the await of line 181, the outcome of its *)
(* round trip arrives while it is suspended, and the loop then resumes it  *)
(* to run from line 181 to its return.  Other calls may run in between.    *)
(***************************************************************************)
AsyncMessages == {"hi"}
AsyncAnswers ==
  { NoResponse("timeout"),
    Response(200, TaskBody(Task(TaskStatus("completed", Message(<<TextPart("hi")>>)), <<>>))) }

\* the session states the concurrent calls start from: a new conversation, and one that
\* was given a session_id and is not active
AsyncStates ==
  { EmptyDict,
    PutAll(EmptyDict, << <<"session_id", "sid-0">>, <<"session_active", FALSE>> >>) }

InitAsync ==
  /\ host = "ready"
  /\ startup = [NoStartup EXCEPT !.addresses = <<"http://127.0.0.1:5000",
                                                 "http://127.0.0.1:5001">>,
                                 !.answers = AllGood]
  /\ remote_agent_connections = BothAgents.remote_agent_connections
  /\ cards = BothAgents.cards
  /\ agents = BothAgents.agents
  /\ state \in AsyncStates
  /\ uuids = 0
  /\ inflight = NoCalls
  /\ last = NoFrame
  /\ sent = 0
  /\ delegations = 0
  /\ observed = NoObservation
  /\ tool_context = FreshToolContext
  /\ conv = IdleConv
  /\ http = IdleHttp

\* a suspended coroutine is resumed anyway
resume_ready_always(frame) == TRUE

\* line 181: the coroutine is resumed when the call it awaits has an outcome
resume_ready(frame) == frame.pc = "resumed"

\* send_task is called while other calls of the session may be suspended
SendTaskSpawn(agent_name, message) ==
  LET r == send_task_begin(remote_agent_connections, state, uuids, agent_name, message)
  IN  /\ host = "ready"
      /\ delegations < MaxDelegations
      /\ r.uuids <= MaxUuids
      /\ delegations' = delegations + 1
      /\ state' = r.state
      /\ uuids' = r.uuids
      /\ sent' = sent + r.frame.attempts
      /\ IF r.frame.pc = "await"
         THEN /\ inflight' = [c \in (DOMAIN inflight) \cup {delegations + 1} |->
                                IF c = delegations + 1 THEN r.frame ELSE inflight[c]]
              /\ last' = last
         ELSE /\ inflight' = inflight
              /\ last' = r.frame
      /\ UNCHANGED <<registryVars, observed, tool_context, conv, http>>

\* the round trip of call c ends: client.send_task has a value or an exception for it
ReplyArrives(c, resp) ==
  /\ c \in DOMAIN inflight
  /\ inflight[c].pc = "await"
  /\ inflight' = [inflight EXCEPT ![c].pc = "resumed", ![c].reply = connection_send_task(resp)]
  /\ UNCHANGED <<registryVars, state, uuids, last, sent, delegations, observed,
                 tool_context, conv, http>>

\* the loop resumes call c, which runs from line 181 to its return
SendTaskResume(c) ==
  /\ c \in DOMAIN inflight
  /\ resume_ready(inflight[c])
  /\ LET f == send_task_finish(inflight[c], inflight[c].reply, tool_context)
     IN  /\ last' = [inflight[c] EXCEPT !.pc = "returned", !.result = f.result,
                                        !.attempts = f.attempts]
         /\ sent' = sent + (f.attempts - inflight[c].attempts)
         /\ tool_context' = f.tc
  /\ inflight' = [d \in (DOMAIN inflight) \ {c} |-> inflight[d]]
  /\ UNCHANGED <<registryVars, state, uuids, delegations, observed, conv, http>>

NextAsync ==
  \/ BeforeModelCallback
  \/ \E agent_name \in AgentNames, message \in AsyncMessages : SendTaskSpawn(agent_name, message)
  \/ \E c \in DOMAIN inflight, resp \in AsyncAnswers : ReplyArrives(c, resp)
  \/ \E c \in DOMAIN inflight : SendTaskResume(c)

\* the event loop runs every coroutine that is ready to run
SpecAsync ==
  /\ InitAsync
  /\ [][NextAsync]_vars
  /\ \A c \in 1..MaxDelegations : WF_vars(SendTaskResume(c))

(***************************************************************************)
(* Claims about send_task (specification Spec).                            *)
(***************************************************************************)
Registered(name) == HasKey(remote_agent_connections, name)
RoundTripEnded == last.pc = "returned"
TaskReturned == RoundTripEnded /\ ~last.reply.raised /\ ~last.reply.task.none

StatusDiagnostic(agent_name, s) ==
  PyStr("Task failed or completed without results from " \o agent_name \o ". Status: " \o s)
NoTaskDiagnostic(agent_name) ==
  PyStr("Failed to get a valid response structure from " \o agent_name
        \o " after sending task (Task object: None).")

\* C1 (as claimed): whenever the round trip of a send_task call to a registered agent has
\* ended, whatever its outcome, the call returned a non-empty string and raised nothing.
C1_ReturnsNonEmptyString ==
  RoundTripEnded => (last.result.py = "str" /\ last.result.v /= "")

\* C2 (as claimed): a request that follows another carries the task id of the one before
\* when both name the same agent, and a different task id when the agent differs.
C2_NewTaskIdOnAgentChange ==
  \A c \in DOMAIN inflight :
    RoundTripEnded =>
      /\ inflight[c].agent_name = last.agent_name => inflight[c].request.id = last.request.id
      /\ inflight[c].agent_name /= last.agent_name => inflight[c].request.id /= last.request.id

\* C2 (amended): once the session state holds a task_id no step changes it, and every
\* request carries the session's task_id: the one of the request before it, whichever
\* agent either of them names; a new one is drawn only when the state holds none.
C2_TaskIdKeptAcrossAgents ==
  [][ /\ "task_id" \in DOMAIN state =>
           ("task_id" \in DOMAIN state' /\ state'["task_id"] = state["task_id"])
      /\ \A c \in (DOMAIN inflight') \ (DOMAIN inflight) :
           /\ "task_id" \in DOMAIN state' /\ inflight'[c].request.id = state'["task_id"]
           /\ RoundTripEnded => inflight'[c].request.id = last.request.id
           /\ "task_id" \notin DOMAIN state => inflight'[c].request.id = Uuid(uuids + 1) ]_vars

C2_Witness ==
  \E c \in DOMAIN inflight :
    /\ RoundTripEnded
    /\ last.agent_name = "GoogleSearchGrounded"
    /\ inflight[c].agent_name = "HappyEmoji"
    /\ inflight[c].request.id = last.request.id

\* C3: once the session state holds a session_id, no step of before_model_callback,
\* send_task or check_state removes or changes it.
C3_SessionIdImmutable ==
  [][ "session_id" \in DOMAIN state =>
        ("session_id" \in DOMAIN state' /\ state'["session_id"] = state["session_id"]) ]_vars

C3_Witness ==
  /\ "session_id" \in DOMAIN state
  /\ state["session_id"] = Uuid(1)
  /\ RoundTripEnded
  /\ delegations = 2
  /\ observed.op = "check_state"

\* C4: a send_task call that names an agent the registry does not hold raises the
\* "not found" ValueError, builds no request and hands none to a connection.
C4_UnknownAgentNoRequest ==
  [][ (delegations' = delegations + 1 /\ ~Registered(last'.agent_name)
         /\ DOMAIN inflight' = {})
      => /\ last'.pc = "raised"
         /\ last'.result = Raise("ValueError: Agent " \o last'.agent_name \o " not found")
         /\ last'.attempts = 0
         /\ last'.request = NoRequest
         /\ sent' = sent ]_vars

C4_Witness ==
  /\ last.pc = "raised"
  /\ last.agent_name = "unknown-agent"
  /\ last.result = Raise("ValueError: Agent unknown-agent not found")
  /\ delegations = 2
  /\ sent = 1

\* C5 (as claimed): a completed Task with no status.message and no artifacts makes
\* send_task return the "no content" sentinel of the empty-results case.
C5_CompletedWithoutContentGivesSentinel ==
  ( /\ TaskReturned
    /\ last.reply.task.status.state = "completed"
    /\ ~last.reply.task.status.message.present
    /\ last.reply.task.artifacts = <<>> )
  => last.result = PyStr(NoContent(last.agent_name))

\* C6 (as claimed): when the round trip returns no Task, or a Task whose state is not
\* completed, with or without a status.message, send_task returns the diagnostic that
\* names the agent (and the state observed), never the converted message parts.
C6_NotCompletedGivesDiagnostic ==
  (RoundTripEnded /\ ~last.reply.raised)
  => /\ last.reply.task.none => last.result = NoTaskDiagnostic(last.agent_name)
     /\ (~last.reply.task.none /\ last.reply.task.status.state /= "completed")
          => last.result = StatusDiagnostic(last.agent_name, last.reply.task.status.state)

(***************************************************************************)
(* Claims about startup (specification SpecStartup).                       *)
(***************************************************************************)
Constructed == host /= "unconstructed"
Given(a) == \E i \in DOMAIN startup.addresses : startup.addresses[i] = a
DiscoveryFailed(a) == get_agent_card(startup.answers[a]).raised
Listed(name) ==
  \E i \in DOMAIN list_agents_of(remote_agent_connections, cards) :
    list_agents_of(remote_agent_connections, cards)[i].name = name

\* C7 (as claimed): when the discovery endpoint of one given address answers HTTP 500,
\* construction still completes, the failing agent is not listed and every agent whose
\* discovery succeeded is.
C7_FailedDiscoveryDoesNotCrash ==
  ( /\ Constructed
    /\ \E a \in Addresses : Given(a) /\ startup.answers[a].received
                            /\ startup.answers[a].status_code = 500 )
  => /\ host = "ready"
     /\ \A a \in Addresses :
          Given(a) => (Listed(CardAt(a).name) <=> ~DiscoveryFailed(a))

\* C7 (amended): construction completes exactly when the discovery of every given address
\* succeeds, and then every given agent is listed; one failed discovery (an HTTP 500
\* among them) raises out of the constructor and out of agent.py, and no registry exists.
C7_FailedDiscoveryAbortsStartup ==
  Constructed =>
    /\ host = "crashed" <=> \E a \in Addresses : Given(a) /\ DiscoveryFailed(a)
    /\ host = "crashed" =>
         /\ remote_agent_connections = <<>> /\ cards = <<>> /\ agents = ""
         /\ startup.exc /= ""
    /\ host = "ready" => \A a \in Addresses : Given(a) => Listed(CardAt(a).name)

C7_Witness ==
  /\ host = "crashed"
  /\ startup.addresses = <<"http://127.0.0.1:5000", "http://127.0.0.1:5001">>
  /\ ~DiscoveryFailed("http://127.0.0.1:5000")
  /\ startup.answers["http://127.0.0.1:5001"] = Response(500, TextBody)
  /\ startup.exc = "HTTPStatusError"

(***************************************************************************)
(* Claims about convert_parts (specification SpecConvert).                 *)
(***************************************************************************)
Converted == conv.pc = "done"
OneFilePart == Len(conv.parts) = 1 /\ conv.parts[1].type = "file"
Decodable(part) == b64decode(part.file.bytes).ok
SavedOnce(part) ==
  /\ Len(tool_context.saved) = Len(conv.before.saved) + 1
  /\ SubSeq(tool_context.saved, 1, Len(conv.before.saved)) = conv.before.saved
  /\ tool_context.saved[Len(tool_context.saved)].id = part.file.name
  /\ tool_context.saved[Len(tool_context.saved)].data = b64decode(part.file.bytes).data

\* C8 (as claimed): converting one FilePart, whatever its bytes and with or without a
\* tool context, yields the one reference to the file's name, saves one artifact under
\* that name and sets skip_summarization and escalate.
C8_FilePartAlwaysSaved ==
  (Converted /\ OneFilePart)
  => /\ ~conv.out.raised
     /\ conv.out.rval = <<ArtifactRef(conv.parts[1].file.name)>>
     /\ SavedOnce(conv.parts[1])
     /\ tool_context.skip_summarization /\ tool_context.escalate

\* C8 (amended): a FilePart whose bytes decode yields the one reference to the file's
\* name; with a tool context it saves one artifact under that name and sets both flags,
\* with none it saves nothing and sets no flag; a FilePart whose bytes do not decode
\* raises, saves nothing and sets no flag.
C8_FilePartSavedWithContext ==
  (Converted /\ OneFilePart)
  => /\ Decodable(conv.parts[1]) =>
          /\ ~conv.out.raised
          /\ conv.out.rval = <<ArtifactRef(conv.parts[1].file.name)>>
          /\ conv.ctx => /\ SavedOnce(conv.parts[1])
                         /\ tool_context.skip_summarization /\ tool_context.escalate
          /\ ~conv.ctx => tool_context = conv.before
     /\ ~Decodable(conv.parts[1]) =>
          /\ conv.out.raised /\ conv.out.rval = <<>>
          /\ tool_context = conv.before

C8_Witness ==
  /\ Converted
  /\ conv.parts = <<FilePart("f.png", "image/png", "iVBORw==")>>
  /\ conv.ctx
  /\ ~conv.before.escalate /\ ~conv.before.skip_summarization
  /\ conv.out.rval = <<ArtifactRef("f.png")>>
  /\ Len(tool_context.saved) = 1 /\ tool_context.saved[1].id = "f.png"
  /\ tool_context.escalate /\ tool_context.skip_summarization

\* what convert_part gives for a part that is no file
Literal(part) ==
  IF part.type = "text" THEN PyStr(part.text)
  ELSE IF part.type = "data" THEN PyDict(part.data)
  ELSE PyStr("Unknown type: " \o part.type)

Elementwise ==
  /\ ~conv.out.raised
  /\ Len(conv.out.rval) = Len(conv.parts)
  /\ \A i \in DOMAIN conv.parts :
       conv.parts[i].type /= "file" => conv.out.rval[i] = Literal(conv.parts[i])

\* C9 (as claimed): for every part sequence convert_parts returns one result per part in
\* order (the text of a TextPart, the payload of a DataPart, the "Unknown type" string
\* that holds the tag for any other tag) and raises for none.
C9_ConvertTotal == Converted => Elementwise

\* C9 (amended): convert_parts returns one result per part in order, with those values,
\* for every sequence whose FileParts all carry bytes that decode; it raises when a
\* FilePart's bytes do not decode, and never because of an unknown tag.
C9_ConvertElementwise ==
  Converted =>
    IF \A i \in DOMAIN conv.parts : conv.parts[i].type = "file" => Decodable(conv.parts[i])
    THEN Elementwise
    ELSE conv.out.raised

C9_Witness ==
  /\ Converted
  /\ conv.parts = <<OtherPart("bogus"), TextPart("hi")>>
  /\ conv.out.rval = <<PyStr("Unknown type: bogus"), PyStr("hi")>>

(***************************************************************************)
(* Claims about the transport (specification SpecClient).                  *)
(***************************************************************************)
RoundTripDone == http.pc = "done" /\ http.op = "send_task" /\ http.is_dict
EmptySuccess ==
  /\ http.resp.received
  /\ is_success(http.resp.status_code)
  /\ (http.resp.content.empty \/ http.resp.status_code = 204)

\* C10: send_task on a response with a success status and an empty body (204 included)
\* returns a result, the empty one, and raises nothing.
C10_EmptySuccessReturns ==
  (RoundTripDone /\ EmptySuccess)
  => /\ ~http.out.raised
     /\ http.out.doc = DictDoc({}, NoTask)

C10_Witness ==
  /\ RoundTripDone
  /\ http.resp = Response(200, EmptyBody)
  /\ ~http.out.raised

\* a body that parses into the response shape send_task expects
ParsesToTaskShape(body) == body.json /\ ValidSendTaskResponse(body.doc)

\* the exceptions of a body that does not parse: json.JSONDecodeError out of response.json()
\* and the ValueError of line 145, both ValueErrors to the caller
DecodeErrors == {"JSONDecodeError", "ValueError"}

\* C11: a failed round trip of send_task raises exactly one of three classes: no response
\* gives A2AClientConnectionError, a 4xx/5xx response gives A2AClientHTTPError carrying the
\* status code, a success response whose body does not parse into the expected shape gives
\* a decode error; a success response whose JSON body parses raises none of them.
C11_ThreeFailureClasses ==
  RoundTripDone =>
    /\ ~http.resp.received =>
         http.out = Raised("A2AClientConnectionError", 0)
    /\ (http.resp.received /\ ~is_success(http.resp.status_code)) =>
         http.out = Raised("A2AClientHTTPError", http.resp.status_code)
    /\ (http.resp.received /\ is_success(http.resp.status_code) /\ ~EmptySuccess
          /\ ~ParsesToTaskShape(http.resp.content)) =>
         (http.out.raised /\ http.out.exc \in DecodeErrors)
    /\ (http.resp.received /\ is_success(http.resp.status_code) /\ ~EmptySuccess
          /\ ParsesToTaskShape(http.resp.content)) =>
         http.out = Returned(http.resp.content.doc)

C11_Witness ==
  /\ RoundTripDone
  /\ http.resp = Response(503, TextBody)
  /\ http.out = Raised("A2AClientHTTPError", 503)

CardResolved == http.pc = "done" /\ http.op = "get_agent_card"

\* what a caller can catch on: the type of the exception (the message of the ValueError
\* of line 42 is the same whatever it wraps)
SameException(a, b) == a.raised /\ b.raised /\ a.exc = b.exc

TransportFailure == get_agent_card(NoResponse("connect"))
ProtocolFailure == get_agent_card(Response(500, TextBody))
DecodeFailure == get_agent_card(Response(200, TextBody))

\* C12 (as claimed): get_agent_card makes one GET and raises on every failure, and the
\* exception tells the three failures apart: it is the one of a connection failure only
\* when no response was received, the one of a non-2xx status only when the status is not
\* 2xx, and the one of a malformed body only when a 2xx body is not a valid card.
C12_FailuresDistinguishable ==
  (CardResolved /\ http.card.raised) =>
    /\ http.card.gets = 1
    /\ SameException(http.card, TransportFailure) <=> ~http.resp.received
    /\ SameException(http.card, ProtocolFailure) <=>
         (http.resp.received /\ ~is_success(http.resp.status_code))
    /\ (http.resp.received /\ is_success(http.resp.status_code)) =>
         ~SameException(http.card, TransportFailure)

\* C12 (amended): get_agent_card makes one GET, never a second, and raises on every
\* failure: a non-2xx status raises the HTTP status error, which no other failure raises;
\* a connection failure and a 2xx body that is not JSON raise the same ValueError, told
\* apart only by its cause; a JSON body that is not a valid card raises the card model's
\* own error; a 2xx body that is a valid card returns it.
C12_FailureSurfacedByCause ==
  CardResolved =>
    /\ http.card.gets = 1
    /\ ~http.resp.received =>
         http.card = CardRaised("ValueError", "RequestError")
    /\ (http.resp.received /\ ~is_success(http.resp.status_code)) =>
         http.card = CardRaised("HTTPStatusError", "")
    /\ http.card.exc = "HTTPStatusError" =>
         (http.resp.received /\ ~is_success(http.resp.status_code))
    /\ (http.resp.received /\ is_success(http.resp.status_code)) =>
         IF ~http.resp.content.json
         THEN http.card = CardRaised("ValueError", "JSONDecodeError")
         ELSE IF ~ValidAgentCard(http.resp.content.doc)
         THEN http.card.raised /\ http.card.exc \in {"ValidationError", "TypeError"}
         ELSE http.card = CardReturned(http.resp.content.doc.card)

C12_Witness ==
  /\ CardResolved
  /\ http.resp = Response(200, TextBody)
  /\ http.card = CardRaised("ValueError", "JSONDecodeError")
  /\ SameException(http.card, TransportFailure)

(***************************************************************************)
(* Further claims about send_task (specification Spec).                    *)
(***************************************************************************)
CallBegins == delegations' = delegations + 1
RoundTripEnds == \E c \in DOMAIN inflight : c \notin DOMAIN inflight'

\* C13: every send_task call hands at most one request to client.send_task: a call that
\* begins sends at most one, a call whose round trip ends, whatever its outcome, returns
\* without sending another, and no more requests were sent than calls were begun.
C13_AtMostOneAttempt ==
  [][ /\ CallBegins => sent' <= sent + 1
      /\ RoundTripEnds => (sent' = sent /\ last'.attempts = 1)
      /\ \A c \in DOMAIN inflight' : inflight'[c].attempts = 1
      /\ sent' <= delegations' ]_vars

C13_Witness ==
  /\ RoundTripEnded
  /\ last.reply.raised
  /\ last.reply.exc = "A2AClientHTTPError"
  /\ last.attempts = 1
  /\ delegations = 1
  /\ sent = 1

(***************************************************************************)
(* Further claims about the registry (specification SpecStartup).          *)
(***************************************************************************)
ListStep == observed' /= observed /\ observed'.op = "list_remote_agents"

EntriesFor(listing, name) == { i \in DOMAIN listing : listing[i].name = name }

\* C14: list_remote_agents is a read-only projection of the registry: after any sequence
\* of registrations it returns exactly one {name, description} entry per registered name,
\* with the description of the card registered under it, none when the registry is
\* empty, and the call changes neither the registry nor the session state.
C14_ListingIsReadOnlyProjection ==
  [][ ListStep =>
        /\ UNCHANGED <<registryVars, state, uuids, inflight, last, sent, delegations,
                       tool_context, conv, http>>
        /\ Len(observed'.listing) = Cardinality(Keys(remote_agent_connections))
        /\ \A i \in DOMAIN observed'.listing :
             /\ DOMAIN observed'.listing[i] = {"name", "description"}
             /\ observed'.listing[i].name \in Keys(remote_agent_connections)
        /\ \A name \in Keys(remote_agent_connections) :
             /\ Cardinality(EntriesFor(observed'.listing, name)) = 1
             /\ \E j \in DOMAIN cards :
                  /\ cards[j].key = name
                  /\ \A i \in EntriesFor(observed'.listing, name) :
                       observed'.listing[i].description = cards[j].value.description
        /\ remote_agent_connections = <<>> => observed'.listing = <<>> ]_vars

C14_Witness ==
  /\ observed.op = "list_remote_agents"
  /\ startup.registrations = 2
  /\ Keys(remote_agent_connections) = {"GoogleSearchGrounded", "HappyEmoji"}
  /\ Len(observed.listing) = 2
  /\ \E i \in DOMAIN observed.listing :
       observed.listing[i] = [name |-> "HappyEmoji", description |-> "A newer description."]

Holds(key, value) == key \in DOMAIN state /\ state[key] = value

\* C15: send_task records the agent it addresses in the session state before the request
\* is handed to the connection: while a request is in flight the state's agent is the one
\* it addresses, and it still is when the call has returned, also after a failed round
\* trip.
C15_ActiveAgentRecordedBeforeCall ==
  /\ \A c \in DOMAIN inflight :
       inflight[c].pc = "await" /\ Holds("agent", inflight[c].agent_name)
  /\ (RoundTripEnded /\ DOMAIN inflight = {}) => Holds("agent", last.agent_name)

C15_Witness ==
  /\ RoundTripEnded
  /\ DOMAIN inflight = {}
  /\ last.reply.raised
  /\ last.reply.exc = "A2AClientConnectionError"
  /\ last.agent_name = "HappyEmoji"
  /\ Holds("agent", "HappyEmoji")

\* C16: a send_task call to a registered agent on a session that holds a session_id
\* stores the task id it uses before the request leaves, and the state still holds that
\* task id when the call has returned, whatever the outcome of the round trip.
C16_TaskIdRecordedWhateverOutcome ==
  [][ /\ (CallBegins /\ "session_id" \in DOMAIN state
            /\ \E c \in DOMAIN inflight' : Registered(inflight'[c].agent_name))
         => \A c \in (DOMAIN inflight') \ (DOMAIN inflight) :
              /\ "task_id" \in DOMAIN state'
              /\ state'["task_id"] = inflight'[c].taskId
              /\ inflight'[c].request.id = inflight'[c].taskId
      /\ (CallBegins /\ "session_id" \in DOMAIN state /\ Registered(last'.agent_name))
         => DOMAIN inflight' /= {}
      /\ last'.pc = "returned" =>
           ("task_id" \in DOMAIN state' /\ state'["task_id"] = last'.taskId) ]_vars

C16_Witness ==
  /\ RoundTripEnded
  /\ last.reply.raised
  /\ last.reply.exc = "ValueError"
  /\ Holds("task_id", last.taskId)
  /\ last.taskId = Uuid(2)

\* status.message.parts followed by the parts of every artifact, in artifact order
RECURSIVE ArtifactParts(_, _)
ArtifactParts(artifacts, i) ==
  IF i > Len(artifacts) THEN <<>>
  ELSE artifacts[i].parts \o ArtifactParts(artifacts, i + 1)

AllParts(task) == task.status.message.parts \o ArtifactParts(task.artifacts, 1)

\* C17 (as claimed): for a completed Task whose parts all convert, send_task returns the
\* converted status.message.parts followed by the converted parts of every artifact,
\* joined by newlines, also when the Task has artifacts and no status.message.
C17_CompletedJoinsMessageAndArtifacts ==
  (TaskReturned /\ last.reply.task.status.state = "completed")
  => LET c == convert_parts(AllParts(last.reply.task), TRUE, FreshToolContext)
     IN  (~c.raised /\ c.rval /= <<>>)
         => last.result = PyStr(Join([i \in DOMAIN c.rval |-> Str(c.rval[i])], "\n"))

BootstrapKeys == {"session_id", "session_active"}
BootstrapStep == state' /= state /\ delegations' = delegations

\* before_model_callback applied to st leaves st as it is
Bootstrapped(st, n) ==
  /\ before_model_callback(st, n) = [state |-> st, uuids |-> n]
  /\ "session_active" \in DOMAIN st /\ st["session_active"] = TRUE

\* st2 is st1 but for session_id and session_active
SameButBootstrap(st1, st2) ==
  /\ DOMAIN st2 = (DOMAIN st1) \cup (BootstrapKeys \cap DOMAIN st2)
  /\ \A k \in (DOMAIN st1) \ BootstrapKeys : st2[k] = st1[k]

\* a state as the host itself writes it: session_active is set true only after a
\* session_id was ensured (lines 119-121), and nothing removes a session_id
WellFormedSession(st) ==
  ("session_active" \in DOMAIN st /\ st["session_active"]) => "session_id" \in DOMAIN st

Calls == 1..MaxDelegations
Suspended(c) == c \in DOMAIN inflight
OutcomeKnown(c) == Suspended(c) /\ inflight[c].pc = "resumed"

\* C19: with several send_task calls of one session in flight, under every interleaving
\* of their steps, a task_id once stored in the session state is never replaced, every
\* request in flight carries the task_id the state holds, and so does the request of the
\* call that returned last.
C19_TaskIdNotRacedFor ==
  [][ /\ "task_id" \in DOMAIN state =>
           ("task_id" \in DOMAIN state' /\ state'["task_id"] = state["task_id"])
      /\ \A c \in DOMAIN inflight' :
           /\ "task_id" \in DOMAIN state'
           /\ inflight'[c].request.id = state'["task_id"]
           /\ inflight'[c].request.sessionId = state'["session_id"]
      /\ last'.pc = "returned" =>
           ("task_id" \in DOMAIN state' /\ last'.request.id = state'["task_id"]) ]_vars

C19_Witness ==
  /\ Suspended(1) /\ Suspended(2)
  /\ inflight[1].pc = "await" /\ inflight[2].pc = "await"
  /\ inflight[1].agent_name = "GoogleSearchGrounded"
  /\ inflight[2].agent_name = "HappyEmoji"
  /\ inflight[1].request.id = inflight[2].request.id
  /\ Holds("task_id", inflight[1].request.id)

\* C20: send_task returns only after the outcome of its round trip is known, and then it
\* does return: a call that leaves the await does so with the reply or the exception of
\* its round trip, a call returns only from there, no call returns in the step that
\* sends its request, and every call whose outcome is known eventually returns.
C20_ReturnsOnlyAfterOutcome ==
  /\ [][ /\ \A c \in (DOMAIN inflight) \ (DOMAIN inflight') :
              /\ OutcomeKnown(c)
              /\ last' = [inflight[c] EXCEPT !.pc = "returned", !.result = last'.result]
              /\ last'.result.py \in {"str", "list"}
         /\ \A c \in (DOMAIN inflight) \cap (DOMAIN inflight') :
              (inflight[c].pc = "await" /\ inflight'[c] /= inflight[c]) =>
                /\ inflight'[c].pc = "resumed"
                /\ \E resp \in AsyncAnswers : inflight'[c].reply = connection_send_task(resp)
         /\ (last'.pc = "returned" /\ last' /= last) =>
              \E c \in (DOMAIN inflight) \ (DOMAIN inflight') : OutcomeKnown(c)
         /\ \A c \in (DOMAIN inflight') \ (DOMAIN inflight) : inflight'[c].pc = "await" ]_vars
  /\ \A c \in Calls : OutcomeKnown(c) ~> ~Suspended(c)

C20_Witness ==
  /\ last.pc = "returned"
  /\ last.reply.raised /\ last.reply.exc = "A2AClientConnectionError"
  /\ last.result.py = "list"
  /\ Suspended(2) /\ inflight[2].pc = "resumed"
  /\ ~Suspended(1)

(***************************************************************************)
(* Claims about the request and the frame of send_task (Spec).             *)
(***************************************************************************)
Carries(md, key, value) == key \in DOMAIN md /\ md[key] = value

\* C21: every request send_task hands to the connection agrees with the session state
\* at that moment: its id is the state's task_id, its sessionId and its conversation_id
\* are the state's session_id, its message metadata carries that conversation_id, whatever
\* the input metadata said, and a message_id that is not empty; a request is sent only by
\* a call that suspends on it, and a call on a state with no session_id sends none.
C21_RequestAgreesWithState ==
  [][ /\ \A c \in (DOMAIN inflight') \ (DOMAIN inflight) :
           /\ "task_id" \in DOMAIN state' /\ inflight'[c].request.id = state'["task_id"]
           /\ "session_id" \in DOMAIN state'
           /\ inflight'[c].request.sessionId = state'["session_id"]
           /\ inflight'[c].request.conversation_id = state'["session_id"]
           /\ Carries(inflight'[c].request.message_metadata, "conversation_id",
                      state'["session_id"])
           /\ "message_id" \in DOMAIN inflight'[c].request.message_metadata
           /\ inflight'[c].request.message_metadata["message_id"] /= ""
      /\ sent' /= sent => (sent' = sent + 1 /\ (DOMAIN inflight') \ (DOMAIN inflight) /= {})
      /\ (CallBegins /\ "session_id" \notin DOMAIN state) =>
           /\ sent' = sent
           /\ DOMAIN inflight' = DOMAIN inflight
           /\ last'.pc = "raised" /\ last'.request = NoRequest ]_vars

C21_Witness ==
  \E c \in DOMAIN inflight :
    /\ Holds("input_message_metadata", [conversation_id |-> "c-in"])
    /\ Holds("session_id", Uuid(1))
    /\ inflight[c].request.sessionId = Uuid(1)
    /\ inflight[c].request.id = Uuid(2)
    /\ inflight[c].request.message_metadata =
         [conversation_id |-> Uuid(1), message_id |-> Uuid(3)]

UnknownAgentStep ==
  /\ CallBegins
  /\ DOMAIN inflight' = DOMAIN inflight
  /\ ~Registered(last'.agent_name)

\* C22: a send_task call that names an agent the registry does not hold raises the "not
\* found" error and leaves the session state as it was: agent, task_id, session_id,
\* session_active and input_message_metadata are neither added, removed nor changed, no
\* uuid is drawn, and check_state reports the same agent as before.
C22_UnknownAgentLeavesState ==
  [][ UnknownAgentStep =>
        /\ last'.result = Raise("ValueError: Agent " \o last'.agent_name \o " not found")
        /\ DOMAIN state' = DOMAIN state
        /\ \A k \in DOMAIN state : state'[k] = state[k]
        /\ uuids' = uuids
        /\ check_state(state') = check_state(state) ]_vars

C22_Witness ==
  /\ last.pc = "raised"
  /\ last.agent_name = "unknown-agent"
  /\ delegations = 2
  /\ Holds("agent", "HappyEmoji")
  /\ Holds("session_active", TRUE)
  /\ "task_id" \in DOMAIN state
  /\ "input_message_metadata" \in DOMAIN state

(***************************************************************************)
(* Claims about the two maps of the registry (specification SpecStartup).  *)
(***************************************************************************)
EntryOf(d, k) == d[CHOOSE i \in DOMAIN d : d[i].key = k].value
NoDuplicateKeys(d) == \A i, j \in DOMAIN d : d[i].key = d[j].key => i = j

\* the listing text of a card map: one json line per card, in the order of the map
ListingText(cs) ==
  Join([i \in DOMAIN cs |->
          "{\"name\": \"" \o cs[i].value.name \o "\", \"description\": \""
            \o cs[i].value.description \o "\"}"], "\n")

InStep(conns, cs, text) ==
  /\ Keys(conns) = Keys(cs)
  /\ NoDuplicateKeys(conns) /\ NoDuplicateKeys(cs)
  /\ \A k \in Keys(cs) :
       /\ EntryOf(cs, k).name = k
       /\ EntryOf(conns, k) = RemoteAgentConnections(EntryOf(cs, k))
  /\ text = ListingText(cs)

RegistrationStep == startup'.registrations = startup.registrations + 1

\* C23: after the constructor and after every register_agent_card call the connection map
\* and the card map have the same keys, each once and each the name of its card, the
\* connection under a key is the one built from the card under it, and the cached
\* listing text is the projection of the card map; registering a card puts that card
\* under its name, in place of the entry of that name when there is one.
C23_MapsInStep ==
  [][ /\ host' = "ready" => InStep(remote_agent_connections', cards', agents')
      /\ RegistrationStep =>
           \E card \in RegisteredCards :
             /\ HasKey(cards', card.name) /\ EntryOf(cards', card.name) = card
             /\ Len(cards') = IF HasKey(cards, card.name) THEN Len(cards) ELSE Len(cards) + 1
             /\ \A k \in Keys(cards) \ {card.name} : EntryOf(cards', k) = EntryOf(cards, k) ]_vars

C23_Witness ==
  /\ host = "ready"
  /\ startup.registrations = 2
  /\ Len(startup.addresses) = 2
  /\ Len(cards) = 2 /\ Len(remote_agent_connections) = 2
  /\ EntryOf(cards, "HappyEmoji").url = "http://127.0.0.1:5002"
  /\ EntryOf(remote_agent_connections, "HappyEmoji").card.description = "A newer description."
  /\ agents = ListingText(cards)

(***************************************************************************)
(* Claims about check_state (specification Spec).                          *)
(***************************************************************************)
ActiveSession(st) ==
  /\ "session_id" \in DOMAIN st
  /\ "session_active" \in DOMAIN st /\ st["session_active"] = TRUE

SameAgent(st1, st2) ==
  /\ "agent" \in DOMAIN st2 <=> "agent" \in DOMAIN st1
  /\ "agent" \in DOMAIN st1 => st2["agent"] = st1["agent"]

RegisteredCallStep == CallBegins /\ ~UnknownAgentStep
CheckStateStep == observed' /= observed /\ observed'.op = "check_state"

\* the agent named by the call that begins in this step
Addressed ==
  IF DOMAIN inflight' /= DOMAIN inflight
  THEN inflight'[CHOOSE c \in (DOMAIN inflight') \ (DOMAIN inflight) : TRUE].agent_name
  ELSE last'.agent_name

\* C24: check_state reports "None" unless the state holds a session_id, session_active
\* is true and an agent is recorded, and then it reports that agent; a send_task call to
\* a registered agent records the agent it names and no other step changes the agent
\* recorded, so in an active session the report is the agent of the most recent such
\* call; check_state changes nothing of the state.
C24_CurrentAgentIsLastDelegate ==
  [][ /\ check_state(state') =
           IF ActiveSession(state') /\ "agent" \in DOMAIN state'
           THEN state'["agent"] ELSE "None"
      /\ RegisteredCallStep =>
           /\ "agent" \in DOMAIN state' /\ state'["agent"] = Addressed
           /\ ActiveSession(state') => check_state(state') = Addressed
      /\ ~RegisteredCallStep => SameAgent(state, state')
      /\ CheckStateStep =>
           /\ observed'.active_agent = check_state(state)
           /\ UNCHANGED <<registryVars, state, uuids, inflight, last, sent, delegations,
                          tool_context, conv, http>> ]_vars

C24_Witness ==
  /\ observed.op = "check_state"
  /\ observed.active_agent = "HappyEmoji"
  /\ ActiveSession(state)
  /\ delegations = 2
  /\ last.pc = "raised" /\ last.agent_name = "unknown-agent"

(***************************************************************************)
(* Claims about the side effects of convert_parts (SpecConvert).           *)
(***************************************************************************)
IsFile(part) == part.type = "file"
FileParts(parts) == SelectSeq(parts, IsFile)

\* the save_artifact call a FilePart stands for
SaveOf(part) ==
  [id |-> part.file.name, mime_type |-> part.file.mimeType,
   data |-> b64decode(part.file.bytes).data]
SavesOf(files) == [i \in DOMAIN files |-> SaveOf(files[i])]

\* the parts before the first FilePart whose bytes do not decode
Undecodable(parts) == { i \in DOMAIN parts : IsFile(parts[i]) /\ ~Decodable(parts[i]) }
Reached(parts) ==
  IF Undecodable(parts) = {} THEN parts
  ELSE SubSeq(parts, 1, (CHOOSE i \in Undecodable(parts) :
                           \A j \in Undecodable(parts) : i <= j) - 1)

\* C25 (as claimed): convert_parts on a sequence with no FilePart makes no save and
\* leaves both flags as they were; on a sequence with k FileParts it makes exactly k
\* saves, one per FilePart in part order.
C25_OneSavePerFilePart ==
  Converted =>
    /\ tool_context.saved = conv.before.saved \o SavesOf(FileParts(conv.parts))
    /\ FileParts(conv.parts) = <<>> => tool_context = conv.before

\* C25 (amended): convert_parts on a sequence with no FilePart makes no save, leaves both
\* flags as they were and does not raise; with a tool context it makes one save per
\* FilePart, in part order, up to the first FilePart whose bytes do not decode, where it
\* raises, and sets both flags once it has saved; with no tool context it makes no save
\* and sets no flag, however many FileParts there are.
C25_SavesWithContextUntilFailure ==
  Converted =>
    LET made == IF conv.ctx THEN SavesOf(FileParts(Reached(conv.parts))) ELSE <<>>
    IN  /\ tool_context.saved = conv.before.saved \o made
        /\ IF made /= <<>>
           THEN tool_context.skip_summarization /\ tool_context.escalate
           ELSE tool_context = conv.before
        /\ conv.out.raised <=> Undecodable(conv.parts) /= {}
        /\ FileParts(conv.parts) = <<>> => (tool_context = conv.before /\ ~conv.out.raised)

C25_Witness ==
  /\ Converted
  /\ conv.ctx
  /\ conv.parts = <<FilePart("f.png", "image/png", "iVBORw=="),
                    FilePart("f.png", "image/png", "iVBORw==")>>
  /\ Len(tool_context.saved) = 2
  /\ tool_context.saved[1] = tool_context.saved[2]
  /\ tool_context.saved[2].id = "f.png"

====
